---- MODULE Spec2Model ----
(***************************************************************************)
(* Time synchronisation of the clock widget.  Two machines share the       *)
(* browser's clock and navigator.onLine and nothing else:                  *)
(*   - NTPService, the offset engine with its own periodic timer and its   *)
(*     own online/offline listeners (SpecNTP);                             *)
(*   - the App with its TimeController: display tick, TimeController's     *)
(*     periodic sync, connection handling and reconnection (Spec).         *)
(* TimeController calls only fetchNTPTime and calculateOffset of the       *)
(* service, neither of which reads or writes the service's fields, so      *)
(* each machine is explored on its own.  The functions of NTPService that  *)
(* touch no field (fetchNTPTime, calculateOffset, parseTimeResponse) are   *)
(* also called on their own, on every argument of a bounded set            *)
(* (SpecPure).  Times are integer milliseconds, as the values of           *)
(* JavaScript Date objects are.                                            *)
(***************************************************************************)
EXTENDS Integers, Sequences, FiniteSets, TLC

\* ----- bounds of the model -----
MaxTime == 2          \* the local clock runs over 0..MaxTime
MaxSkew == 1          \* remote clock - local clock ranges over -MaxSkew..MaxSkew
MaxAttempts == 2      \* performSync attempts NTPService starts in one behaviour
MaxSyncs == 3         \* syncWithNTP calls TimeController starts in one behaviour
FirstYear == 2000     \* calendar dates run from 1 January FirstYear
LastYear == 2027      \*   to 31 December LastYear
MaxObjects == 3       \* world clock objects created in one behaviour

\* ----- values of the program -----
NULL == -1
DefaultIntervalMinutes == 15
MsPerMinute == 60000
MaxReconnectAttempts == 5
BaseDelay == 5000
MaxDelay == 300000
MaxDiff == 86400000   \* validateTimeResponse: 24 hours in milliseconds

IntervalChoices == {30}
\* remote clock - local clock: a few milliseconds, or grossly wrong
Skews == ((0 - MaxSkew)..MaxSkew) \cup {MaxDiff + 1}
Endpoints == 1..3
\* what one endpoint does: it throws (timeout, HTTP status, format) or it
\* returns an instant, kept relative to the local clock
Errors == {"timeout", "http", "format"}
Outcomes ==
    {[ok |-> TRUE, time |-> k, err |-> "none"] : k \in Skews}
        \cup {[ok |-> FALSE, time |-> NULL, err |-> e] : e \in Errors}

VARIABLES
    \* NTPService
    timeOffset, lastSyncTime, syncInterval, syncTimer, ntpTimers, isOnlineMode,
    inflight,
    \* TimeController
    tcTimeOffset, isNTPSynced, tcLastSyncTime, tcSyncInterval,
    syncIntervalMinutes, updateInterval, tcPhase, tcInflight, tcNextId,
    \* App
    appIsOnline, reconnectAttempts, reconnectInterval,
    \* WorldClockManager.worldClocks, the worldClocks arrays of SettingsManager
    \* (of defaultSettings, of settings), which array the setting refers to,
    \* the worldClocks in localStorage, the next object to be created
    wcmWorldClocks, defaultWorldClocks, ownWorldClocks, settingsArray,
    storedWorldClocks, nextObject,
    \* environment
    navigatorOnLine, now, nextId,
    \* what the last step did and returned, and who wrote which field
    out, ntpWriter, tcWriter

ntpVars == <<timeOffset, lastSyncTime, syncInterval, syncTimer, ntpTimers,
             isOnlineMode, inflight, ntpWriter>>
tcVars == <<tcTimeOffset, isNTPSynced, tcLastSyncTime, tcSyncInterval,
            syncIntervalMinutes, updateInterval, tcPhase, tcInflight, tcNextId,
            tcWriter>>
appVars == <<appIsOnline, reconnectAttempts, reconnectInterval>>
wcVars == <<wcmWorldClocks, defaultWorldClocks, ownWorldClocks, settingsArray,
            storedWorldClocks, nextObject>>
envVars == <<navigatorOnLine, now, nextId>>
vars == <<ntpVars, tcVars, appVars, wcVars, envVars, out>>

Min(a, b) == IF a < b THEN a ELSE b

RECURSIVE Pow2(_)
Pow2(k) == IF k = 0 THEN 1 ELSE 2 * Pow2(k - 1)

\* ----- NTPService: pure parts -----

\* fetchNTPTime, the catch blocks: lastError = error
LastErrorFirstKept(lastError, error) ==
    IF lastError = "none" THEN error ELSE lastError
LastError(lastError, error) == error

\* fetchNTPTime: the primary endpoint, then each fallback in list order.  An
\* endpoint that answers returns from the function; one that throws is
\* recorded in lastError and the next is tried; after the last, the function
\* throws with the message of lastError.
RECURSIVE TryEndpoints(_, _, _, _)
TryEndpoints(resp, i, lastError, tried) ==
    IF i \notin Endpoints
    THEN [ok |-> FALSE, time |-> NULL, contacted |-> tried, err |-> lastError]
    ELSE IF resp[i].ok
         THEN [ok |-> TRUE, time |-> resp[i].time,
               contacted |-> Append(tried, i), err |-> "none"]
         ELSE TryEndpoints(resp, i + 1, LastError(lastError, resp[i].err),
                           Append(tried, i))
FetchNTPTime(resp) == TryEndpoints(resp, 1, "none", <<>>)

\* What a fetch can settle to.
FetchAnswers == {FetchNTPTime(resp) : resp \in [Endpoints -> Outcomes]}
\* What the awaiting caller gets: a time, or a rejection whose error it only
\* logs.
FetchResults == {[ok |-> r.ok, time |-> r.time] : r \in FetchAnswers}
\* the instant a successful answer carries
RemoteTime(r) == now + r.time

\* JavaScript values handed to calculateOffset: a Date with a time value, the
\* Invalid Date (time value NaN), and values that are not Date objects.
DateOf(t) == [type |-> "Date", valid |-> TRUE, time |-> t]
InvalidDate == [type |-> "Date", valid |-> FALSE, time |-> 0]
NotADate(type) == [type |-> type, valid |-> FALSE, time |-> 0]
Values ==
    {DateOf(t) : t \in 0..MaxTime}
        \cup {InvalidDate, NotADate("null"), NotADate("string")}
IsValidInstant(v) == v.type = "Date" /\ v.valid

\* ntpTime.getTime() - localTime.getTime()
CalculateOffsetSwapped(ntpTime, localTime) == localTime - ntpTime
CalculateOffset(ntpTime, localTime) == ntpTime - localTime

\* what a call does: it throws, or it returns a number, possibly NaN
Threw == [threw |-> TRUE, nan |-> FALSE, value |-> 0]
Number(n) == [threw |-> FALSE, nan |-> FALSE, value |-> n]
NaN == [threw |-> FALSE, nan |-> TRUE, value |-> 0]

\* calculateOffset(ntpTime, localTime): the instanceof guard, then the
\* difference of the time values (NaN if either is NaN).
CalculateOffsetCall(ntpTime, localTime) ==
    IF ntpTime.type # "Date" \/ localTime.type # "Date"
    THEN Threw
    ELSE IF ntpTime.valid /\ localTime.valid
         THEN Number(CalculateOffset(ntpTime.time, localTime.time))
         ELSE NaN

\* A field of a response body: absent, present but not a time, or a time.
Missing == [kind |-> "missing", time |-> 0]
Bad == [kind |-> "bad", time |-> 0]
Good(t) == [kind |-> "good", time |-> t]
Fields == {Missing, Bad} \cup {Good(t) : t \in 1..MaxTime}
Truthy(f) == f.kind # "missing"

\* The bodies response.json() can give, null included, and the provider
\* types parseTimeResponse is called with.
Bodies ==
    [isNull : {FALSE}, datetime : Fields, utc_datetime : Fields,
     dateTime : Fields, status : {"OK", "FAILED"}, timestamp : Fields]
        \cup {[isNull |-> TRUE, datetime |-> Missing, utc_datetime |-> Missing,
                dateTime |-> Missing, status |-> "FAILED",
                timestamp |-> Missing]}
ProviderTypes == {"worldtime", "timeapi", "timezonedb"}
ApiTypes == ProviderTypes \cup {"unknown"}

\* new Date(timeString) and new Date(data.timestamp * 1000)
SecondsToMs == 1000
NewDate(f) == IF f.kind = "good" THEN DateOf(f.time) ELSE InvalidDate
NewDateOfTimestamp(f) ==
    IF f.kind = "good" THEN DateOf(f.time * SecondsToMs) ELSE InvalidDate

ParseThrew == [threw |-> TRUE, date |-> InvalidDate]
ParseReturned(d) == [threw |-> FALSE, date |-> d]

\* parseTimeResponse(data, type)
ParseTimeResponse(data, type) ==
    IF type \notin ProviderTypes THEN ParseThrew
    ELSE IF data.isNull THEN ParseThrew
    ELSE IF type = "timezonedb" /\ data.status = "OK"
         THEN ParseReturned(NewDateOfTimestamp(data.timestamp))
    ELSE LET timeString ==
                 CASE type = "worldtime" ->
                          IF Truthy(data.datetime) THEN data.datetime
                                                   ELSE data.utc_datetime
                   [] type = "timeapi" -> data.dateTime
                   [] type = "timezonedb" -> Missing
             parsedTime == NewDate(timeString)
         IN  IF ~Truthy(timeString) THEN ParseThrew
             ELSE IF ~parsedTime.valid THEN ParseThrew
             ELSE ParseReturned(parsedTime)

\* validateTimeResponse(time), with now the reading of new Date()
Abs(x) == IF x < 0 THEN 0 - x ELSE x
ValidateTimeResponse(time, nowT) == ~(Abs(time - nowT) > MaxDiff)

\* new Date(T0 + (T1 - T0) / 2): the Date constructor clips the time value to
\* an integer number of milliseconds.
AdjustedLocalTime(t0, t1) == t0 + ((t1 - t0) \div 2)

\* isOnline(): navigator.onLine
IsOnlineAlways(onLine) == TRUE
IsOnline(onLine) == onLine

\* handleSyncFailure: the offset is reset only if no sync ever succeeded.
HandleSyncFailureOffsetReset(offset, last) == 0
HandleSyncFailureOffset(offset, last) == IF last = NULL THEN 0 ELSE offset

\* performSync, catch branch: handleSyncFailure runs only in online mode.
SyncFailureModeToggle(mode) == ~mode
SyncFailureMode(mode) == IF mode THEN FALSE ELSE mode

\* performSync, success branch: lastSyncTime = new Date().
SyncSuccessLastSyncTimeKept(old, t) == old
SyncSuccessLastSyncTime(old, t) == t

\* getCurrentTime of NTPService.
GetCurrentTime ==
    IF isOnlineMode \/ lastSyncTime # NULL THEN now + timeOffset ELSE now

\* getSyncStatus of NTPService.
GetSyncStatus ==
    [isOnline |-> isOnlineMode, lastSyncTime |-> lastSyncTime,
     timeOffset |-> timeOffset, syncInterval |-> syncInterval,
     isUsingNTPTime |-> (isOnlineMode \/ lastSyncTime # NULL)]

\* stopPeriodicSync: clearInterval of the handle, if any.
ClearIntervalNoop(timers, handle) == timers
ClearInterval(timers, handle) == {t \in timers : t.id # handle}

NewTimerId(timers) ==
    CHOOSE i \in 1..(Cardinality(timers) + 1) :
        /\ \A t \in timers : t.id # i
        /\ \A j \in 1..(i - 1) : \E t \in timers : t.id = j

\* ----- TimeController and App: pure parts -----

\* getCurrentTime of TimeController, the instant the display tick formats.
TCCurrentTime(synced, offset) ==
    IF synced /\ offset # NULL THEN now + offset ELSE now
TCGetCurrentTime == TCCurrentTime(isNTPSynced, tcTimeOffset)

\* updateTimeDisplay: what one display tick hands to the UI.
Observe(synced, offset, last) ==
    [time |-> TCCurrentTime(synced, offset), synced |-> synced, lastSync |-> last]
NoShow == [time |-> NULL, synced |-> FALSE, lastSync |-> NULL]

\* handleOfflineMode: this.timeOffset = 0.
HandleOfflineModeOffsetKept(offset) == offset
HandleOfflineModeOffset(offset) == 0

\* startReconnectionAttempts: delay of the interval it creates.
ReconnectDelay(attempts) == Min(BaseDelay * Pow2(attempts), MaxDelay)

\* startReconnectionAttempts
StartReconnectionAttempts(interval, online, attempts) ==
    IF interval # NULL \/ ~online THEN interval ELSE ReconnectDelay(attempts)

\* The step's record: the operation, what it returned, what it displayed and,
\* for a settled performSync, the attempt that settled.
\* For an 'offline' event: whether it suspended a running schedule.
NoAttempt ==
    [id |-> 0, fetched |-> FALSE, offset |-> 0, stopped |-> FALSE, late |-> FALSE]
EmitAll(op, r, shown, done, suspended) ==
    out' = [op |-> op, ret |-> r, shown |-> shown, done |-> done,
            suspended |-> suspended]
EmitDone(op, r, shown, done) == EmitAll(op, r, shown, done, FALSE)
Emit(op, r, shown) == EmitDone(op, r, shown, NoAttempt)

\* ----- initial state: the objects as constructed -----
Constructed ==
    /\ timeOffset = 0
    /\ lastSyncTime = NULL
    /\ syncInterval = DefaultIntervalMinutes * MsPerMinute
    /\ syncTimer = NULL
    /\ ntpTimers = {}
    /\ isOnlineMode = TRUE
    /\ inflight = {}
    /\ tcTimeOffset = 0
    /\ isNTPSynced = FALSE
    /\ tcLastSyncTime = NULL
    /\ tcSyncInterval = NULL
    /\ syncIntervalMinutes = DefaultIntervalMinutes
    /\ updateInterval = NULL
    /\ tcPhase = "new"
    /\ tcInflight = {}
    /\ tcNextId = 1
    /\ navigatorOnLine \in BOOLEAN
    /\ appIsOnline = navigatorOnLine
    /\ reconnectAttempts = 0
    /\ reconnectInterval = NULL
    /\ now = 0
    /\ nextId = 1
    /\ ntpWriter = [offset |-> 0, mode |-> 0]
    /\ tcWriter = [offset |-> 0, synced |-> 0, lastSync |-> 0]
    /\ wcmWorldClocks = <<>>
    /\ defaultWorldClocks = <<>>
    /\ ownWorldClocks = <<>>
    /\ settingsArray = "default"
    /\ storedWorldClocks = <<>>
    /\ nextObject = 1

Init ==
    /\ Constructed
    /\ out = [op |-> "init", ret |-> "none", shown |-> NoShow,
              done |-> NoAttempt, suspended |-> FALSE]

\* ----- NTPService: operations -----

\* Every in-flight attempt remembers that stopPeriodicSync ran meanwhile.
MarkStopped(S) == {[a EXCEPT !.stopped = TRUE] : a \in S}

\* performSync up to its await: offline it returns false at once, online it
\* reads T0 and issues the fetch.
PerformSyncCall(S, onLine, id) ==
    IF IsOnline(onLine)
    THEN S \cup {[id |-> id, t0 |-> now, stopped |-> FALSE]}
    ELSE S
PerformSyncIds(onLine) == IF IsOnline(onLine) THEN 1 ELSE 0
PerformSyncRet(onLine) == IF IsOnline(onLine) THEN "pending" ELSE "false"

\* startPeriodicSync(intervalMinutes)
DoStartPeriodicSync(m, onLine, id) ==
    /\ syncInterval' = m * MsPerMinute
    /\ LET cleared == ClearInterval(ntpTimers, syncTimer)
           handle == NewTimerId(cleared)
       IN  /\ syncTimer' = handle
           /\ ntpTimers' =
                  cleared \cup {[id |-> handle, period |-> m * MsPerMinute]}
    /\ inflight' = PerformSyncCall(MarkStopped(inflight), onLine, id)

\* stopPeriodicSync
DoStopPeriodicSync ==
    /\ ntpTimers' = ClearInterval(ntpTimers, syncTimer)
    /\ syncTimer' = NULL
    /\ inflight' = MarkStopped(inflight)

StartPeriodicSync(m) ==
    /\ nextId + PerformSyncIds(navigatorOnLine) <= MaxAttempts + 1
    /\ DoStartPeriodicSync(m, navigatorOnLine, nextId)
    /\ nextId' = nextId + PerformSyncIds(navigatorOnLine)
    /\ Emit("startPeriodicSync", PerformSyncRet(navigatorOnLine), NoShow)
    /\ UNCHANGED <<timeOffset, lastSyncTime, isOnlineMode, ntpWriter>>
    /\ UNCHANGED <<tcVars, appVars, navigatorOnLine, now, wcVars>>

StopPeriodicSync ==
    /\ DoStopPeriodicSync
    /\ Emit("stopPeriodicSync", "none", NoShow)
    /\ UNCHANGED <<timeOffset, lastSyncTime, syncInterval, isOnlineMode,
                   ntpWriter>>
    /\ UNCHANGED <<tcVars, appVars, envVars, wcVars>>

\* the callback of the interval created by startPeriodicSync
SyncTimerFire ==
    /\ ntpTimers # {}
    /\ nextId + PerformSyncIds(navigatorOnLine) <= MaxAttempts + 1
    /\ inflight' = PerformSyncCall(inflight, navigatorOnLine, nextId)
    /\ nextId' = nextId + PerformSyncIds(navigatorOnLine)
    /\ Emit("syncTimer", PerformSyncRet(navigatorOnLine), NoShow)
    /\ UNCHANGED <<timeOffset, lastSyncTime, syncInterval, syncTimer, ntpTimers,
                   isOnlineMode, ntpWriter>>
    /\ UNCHANGED <<tcVars, appVars, navigatorOnLine, now, wcVars>>

\* forcSync
ForcSync ==
    /\ nextId + PerformSyncIds(navigatorOnLine) <= MaxAttempts + 1
    /\ inflight' = PerformSyncCall(inflight, navigatorOnLine, nextId)
    /\ nextId' = nextId + PerformSyncIds(navigatorOnLine)
    /\ Emit("forcSync", PerformSyncRet(navigatorOnLine), NoShow)
    /\ UNCHANGED <<timeOffset, lastSyncTime, syncInterval, syncTimer, ntpTimers,
                   isOnlineMode, ntpWriter>>
    /\ UNCHANGED <<tcVars, appVars, navigatorOnLine, now, wcVars>>

\* setSyncInterval(intervalMinutes)
SetSyncInterval(m) ==
    /\ IF m < 1
       THEN /\ Emit("setSyncInterval", "error", NoShow)
            /\ UNCHANGED <<syncInterval, syncTimer, ntpTimers, inflight, nextId>>
       ELSE IF syncTimer # NULL
            THEN /\ nextId + PerformSyncIds(navigatorOnLine) <= MaxAttempts + 1
                 /\ DoStartPeriodicSync(m, navigatorOnLine, nextId)
                 /\ nextId' = nextId + PerformSyncIds(navigatorOnLine)
                 /\ Emit("setSyncInterval", PerformSyncRet(navigatorOnLine),
                         NoShow)
            ELSE /\ syncInterval' = m * MsPerMinute
                 /\ Emit("setSyncInterval", "none", NoShow)
                 /\ UNCHANGED <<syncTimer, ntpTimers, inflight, nextId>>
    /\ UNCHANGED <<timeOffset, lastSyncTime, isOnlineMode, ntpWriter>>
    /\ UNCHANGED <<tcVars, appVars, navigatorOnLine, now, wcVars>>

\* destroy of NTPService
Destroy ==
    /\ DoStopPeriodicSync
    /\ Emit("destroy", "none", NoShow)
    /\ UNCHANGED <<timeOffset, lastSyncTime, syncInterval, isOnlineMode,
                   ntpWriter>>
    /\ UNCHANGED <<tcVars, appVars, envVars, wcVars>>

\* performSync after its await: the fetch of attempt a has settled to r.
PerformSyncDone(a, r) ==
    /\ a \in inflight
    /\ inflight' = inflight \ {a}
    /\ IF r.ok
       THEN /\ timeOffset' =
                   CalculateOffset(RemoteTime(r), AdjustedLocalTime(a.t0, now))
            /\ lastSyncTime' = SyncSuccessLastSyncTime(lastSyncTime, now)
            /\ isOnlineMode' = TRUE
            /\ ntpWriter' = [offset |-> a.id, mode |-> a.id]
            /\ EmitDone("performSyncDone", "true", NoShow,
                        [id |-> a.id, fetched |-> TRUE,
                         offset |-> RemoteTime(r) - (a.t0 + ((now - a.t0) \div 2)),
                         stopped |-> a.stopped,
                         late |-> ntpWriter.offset > a.id])
       ELSE /\ isOnlineMode' = SyncFailureMode(isOnlineMode)
            /\ timeOffset' =
                   IF isOnlineMode
                   THEN HandleSyncFailureOffset(timeOffset, lastSyncTime)
                   ELSE timeOffset
            /\ UNCHANGED lastSyncTime
            /\ ntpWriter' =
                   IF isOnlineMode
                   THEN [ntpWriter EXCEPT
                           !.mode = a.id,
                           !.offset = IF lastSyncTime = NULL THEN a.id ELSE @]
                   ELSE ntpWriter
            /\ EmitDone("performSyncDone", "false", NoShow,
                        [id |-> a.id, fetched |-> FALSE, offset |-> 0,
                         stopped |-> a.stopped,
                         late |-> ntpWriter.offset > a.id])
    /\ UNCHANGED <<syncInterval, syncTimer, ntpTimers>>
    /\ UNCHANGED <<tcVars, appVars, envVars, wcVars>>

\* the 'offline' listener of NTPService
NTPOnOffline ==
    /\ isOnlineMode' = FALSE
    /\ DoStopPeriodicSync
    /\ ntpWriter' = [ntpWriter EXCEPT !.mode = 0]
    /\ UNCHANGED <<timeOffset, lastSyncTime, syncInterval>>

\* the 'online' listener of NTPService
NTPOnOnline(id) ==
    /\ isOnlineMode' = TRUE
    /\ DoStartPeriodicSync(DefaultIntervalMinutes, TRUE, id)
    /\ ntpWriter' = [ntpWriter EXCEPT !.mode = 0]
    /\ UNCHANGED <<timeOffset, lastSyncTime>>

\* ----- TimeController and App: operations -----

\* syncWithNTP up to its await: the fetch is issued unconditionally.  t0 is
\* the local clock when the fetch was issued; syncWithNTP does not read it.
SyncWithNTPCall(S, src, id) == S \cup {[id |-> id, src |-> src, t0 |-> now]}

SettingChoices == {0, DefaultIntervalMinutes}

\* initialize, up to the await of the startup sync
Initialize(m) ==
    /\ tcPhase = "new"
    /\ tcNextId <= MaxSyncs
    /\ syncIntervalMinutes' = m
    /\ tcInflight' = SyncWithNTPCall(tcInflight, "init", tcNextId)
    /\ tcNextId' = tcNextId + 1
    /\ tcPhase' = "initializing"
    /\ Emit("initialize", "none", NoShow)
    /\ UNCHANGED <<tcTimeOffset, isNTPSynced, tcLastSyncTime, tcSyncInterval,
                   updateInterval, tcWriter>>
    /\ UNCHANGED <<ntpVars, appVars, envVars, wcVars>>

\* syncWithNTP after its await, followed by the continuation of its caller:
\* initialize, the periodic callback, forceSyncNTP called by
\* handleConnectionRestored or by attemptReconnect.
SyncWithNTPDone(a, r) ==
    /\ a \in tcInflight
    /\ tcInflight' = tcInflight \ {a}
    /\ LET offset == IF r.ok THEN CalculateOffset(RemoteTime(r), now)
                             ELSE HandleOfflineModeOffset(tcTimeOffset)
           last == IF r.ok THEN now ELSE tcLastSyncTime
       IN  /\ tcTimeOffset' = offset
           /\ isNTPSynced' = r.ok
           /\ tcLastSyncTime' = last
           /\ tcWriter' = IF r.ok
                          THEN [offset |-> a.id, synced |-> a.id,
                                lastSync |-> a.id]
                          ELSE [tcWriter EXCEPT !.offset = a.id, !.synced = a.id]
           /\ IF a.src = "init"
              THEN /\ tcPhase' = "ready"
                   /\ updateInterval' = 1
                   /\ Emit("syncWithNTPDone", IF r.ok THEN "true" ELSE "false",
                           Observe(r.ok, offset, last))
                   /\ tcSyncInterval' = IF r.ok
                                        THEN syncIntervalMinutes * MsPerMinute
                                        ELSE tcSyncInterval
              ELSE /\ Emit("syncWithNTPDone", IF r.ok THEN "true" ELSE "false",
                           NoShow)
                   /\ UNCHANGED <<tcPhase, updateInterval, tcSyncInterval>>
           /\ IF a.src = "restore" /\ ~r.ok
              THEN /\ reconnectInterval' =
                          StartReconnectionAttempts(reconnectInterval,
                                                    appIsOnline, reconnectAttempts)
                   /\ UNCHANGED reconnectAttempts
              ELSE IF a.src = "reconnect"
              THEN IF r.ok
                   THEN /\ reconnectInterval' = NULL
                        /\ reconnectAttempts' = 0
                   ELSE /\ reconnectAttempts' = reconnectAttempts + 1
                        /\ UNCHANGED reconnectInterval
              ELSE UNCHANGED <<reconnectInterval, reconnectAttempts>>
    /\ UNCHANGED <<syncIntervalMinutes, tcNextId, appIsOnline>>
    /\ UNCHANGED <<ntpVars, envVars, wcVars>>

\* the callback of the interval created by TimeController.startPeriodicSync
PeriodicSyncFire ==
    /\ tcSyncInterval # NULL
    /\ tcNextId <= MaxSyncs
    /\ tcInflight' = SyncWithNTPCall(tcInflight, "plain", tcNextId)
    /\ tcNextId' = tcNextId + 1
    /\ Emit("periodicSync", "pending", NoShow)
    /\ UNCHANGED <<tcTimeOffset, isNTPSynced, tcLastSyncTime, tcSyncInterval,
                   syncIntervalMinutes, updateInterval, tcPhase, tcWriter>>
    /\ UNCHANGED <<ntpVars, appVars, envVars, wcVars>>

\* forceSyncNTP called from outside (window.forceSync)
ForceSyncNTP ==
    /\ tcPhase # "new"
    /\ tcNextId <= MaxSyncs
    /\ tcInflight' = SyncWithNTPCall(tcInflight, "plain", tcNextId)
    /\ tcNextId' = tcNextId + 1
    /\ Emit("forceSyncNTP", "pending", NoShow)
    /\ UNCHANGED <<tcTimeOffset, isNTPSynced, tcLastSyncTime, tcSyncInterval,
                   syncIntervalMinutes, updateInterval, tcPhase, tcWriter>>
    /\ UNCHANGED <<ntpVars, appVars, envVars, wcVars>>

\* updateSyncInterval(minutes)
UpdateSyncInterval(m) ==
    /\ tcPhase = "ready"
    /\ syncIntervalMinutes' = m
    /\ tcSyncInterval' = m * MsPerMinute
    /\ Emit("updateSyncInterval", "none", NoShow)
    /\ UNCHANGED <<tcTimeOffset, isNTPSynced, tcLastSyncTime, updateInterval,
                   tcPhase, tcInflight, tcNextId, tcWriter>>
    /\ UNCHANGED <<ntpVars, appVars, envVars, wcVars>>

\* updateWorldClockTime: const now = new Date(), the instant every enabled
\* world clock is formatted from.
UpdateWorldClockTime == now
\* updateAllWorldClocks: each enabled world clock gets updateWorldClockTime.
UpdateAllWorldClocks == UpdateWorldClockTime

\* the 1-second display tick: updateTimeDisplay as App.setupWorldClockIntegration
\* wraps it, the original update followed by updateAllWorldClocks.
UpdateTimeDisplay ==
    /\ updateInterval # NULL
    /\ out' = [op |-> "tick", ret |-> "none",
               shown |-> Observe(isNTPSynced, tcTimeOffset, tcLastSyncTime),
               done |-> NoAttempt, suspended |-> FALSE,
               world |-> UpdateAllWorldClocks]
    /\ UNCHANGED <<ntpVars, tcVars, appVars, envVars, wcVars>>

\* attemptReconnect, the callback of the reconnect interval
AttemptReconnect ==
    /\ reconnectInterval # NULL
    /\ IF ~appIsOnline \/ reconnectAttempts >= MaxReconnectAttempts
       THEN /\ reconnectInterval' = NULL
            /\ Emit("attemptReconnect", "none", NoShow)
            /\ UNCHANGED <<tcInflight, tcNextId>>
       ELSE /\ tcNextId <= MaxSyncs
            /\ tcInflight' = SyncWithNTPCall(tcInflight, "reconnect", tcNextId)
            /\ tcNextId' = tcNextId + 1
            /\ Emit("attemptReconnect", "pending", NoShow)
            /\ UNCHANGED reconnectInterval
    /\ UNCHANGED <<tcTimeOffset, isNTPSynced, tcLastSyncTime, tcSyncInterval,
                   syncIntervalMinutes, updateInterval, tcPhase, tcWriter>>
    /\ UNCHANGED <<appIsOnline, reconnectAttempts>>
    /\ UNCHANGED <<ntpVars, envVars, wcVars>>

\* App, 'offline' listener: handleConnectionLost -> handleOfflineMode
AppOnOffline ==
    /\ appIsOnline' = FALSE
    /\ isNTPSynced' = FALSE
    /\ tcTimeOffset' = HandleOfflineModeOffset(tcTimeOffset)
    /\ tcWriter' = [tcWriter EXCEPT !.offset = 0, !.synced = 0]
    /\ UNCHANGED <<tcLastSyncTime, tcSyncInterval, syncIntervalMinutes,
                   updateInterval, tcPhase, tcInflight, tcNextId>>
    /\ UNCHANGED <<reconnectAttempts, reconnectInterval>>

RestoreIds == IF tcPhase = "new" THEN 0 ELSE 1

\* App, 'online' listener: handleConnectionRestored up to its await; it
\* forces a sync only once the TimeController exists.
AppOnOnline(id) ==
    /\ appIsOnline' = TRUE
    /\ reconnectAttempts' = 0
    /\ reconnectInterval' = NULL
    /\ tcInflight' = IF tcPhase = "new" THEN tcInflight
                     ELSE SyncWithNTPCall(tcInflight, "restore", id)
    /\ tcNextId' = tcNextId + RestoreIds
    /\ UNCHANGED <<tcTimeOffset, isNTPSynced, tcLastSyncTime, tcSyncInterval,
                   syncIntervalMinutes, updateInterval, tcPhase, tcWriter>>

\* ----- the browser's network events -----

\* 'offline' in the application: the listener of setupNetworkMonitoring
OfflineEvent ==
    /\ navigatorOnLine
    /\ navigatorOnLine' = FALSE
    /\ AppOnOffline
    /\ Emit("offline", "none", NoShow)
    /\ UNCHANGED <<ntpVars, now, nextId, wcVars>>

\* 'online' in the application: the listener of setupNetworkMonitoring
OnlineEvent ==
    /\ ~navigatorOnLine
    /\ tcNextId + RestoreIds <= MaxSyncs + 1
    /\ navigatorOnLine' = TRUE
    /\ AppOnOnline(tcNextId)
    /\ Emit("online", "pending", NoShow)
    /\ UNCHANGED <<ntpVars, now, nextId, wcVars>>

\* 'offline' with NTPService on its own
ServiceOffline ==
    /\ navigatorOnLine
    /\ navigatorOnLine' = FALSE
    /\ NTPOnOffline
    /\ EmitAll("offline", "none", NoShow, NoAttempt, syncTimer # NULL)
    /\ UNCHANGED <<tcVars, appVars, now, nextId, wcVars>>

\* 'online' with NTPService on its own
ServiceOnline ==
    /\ ~navigatorOnLine
    /\ nextId <= MaxAttempts
    /\ navigatorOnLine' = TRUE
    /\ NTPOnOnline(nextId)
    /\ nextId' = nextId + 1
    /\ Emit("online", "pending", NoShow)
    /\ UNCHANGED <<tcVars, appVars, now, wcVars>>

\* the local clock advances
AdvanceClock ==
    /\ now < MaxTime
    /\ now' = now + 1
    /\ Emit("clock", "none", NoShow)
    /\ UNCHANGED <<ntpVars, tcVars, appVars, navigatorOnLine, nextId, wcVars>>

\* the operations with their inputs drawn from the small sets
StartPeriodicSyncCalled ==
    \E m \in IntervalChoices \cup {DefaultIntervalMinutes} : StartPeriodicSync(m)
SetSyncIntervalCalled == \E m \in IntervalChoices \cup {0} : SetSyncInterval(m)
PerformSyncSettles == \E a \in inflight, r \in FetchResults : PerformSyncDone(a, r)
InitializeCalled == \E m \in SettingChoices : Initialize(m)
SyncWithNTPSettles ==
    \E a \in tcInflight, r \in FetchResults : SyncWithNTPDone(a, r)
UpdateSyncIntervalCalled == \E m \in SettingChoices : UpdateSyncInterval(m)

\* The application: App and its TimeController.
Next ==
    \/ InitializeCalled
    \/ SyncWithNTPSettles
    \/ PeriodicSyncFire
    \/ ForceSyncNTP
    \/ UpdateSyncIntervalCalled
    \/ UpdateTimeDisplay
    \/ AttemptReconnect
    \/ OfflineEvent
    \/ OnlineEvent
    \/ AdvanceClock

Spec == Init /\ [][Next]_vars

\* NTPService on its own, driven through its public methods.
NextNTP ==
    \/ StartPeriodicSyncCalled
    \/ StopPeriodicSync
    \/ SyncTimerFire
    \/ ForcSync
    \/ SetSyncIntervalCalled
    \/ Destroy
    \/ PerformSyncSettles
    \/ ServiceOffline
    \/ ServiceOnline
    \/ AdvanceClock

SpecNTP == Init /\ [][NextNTP]_vars

\* ----- the pure functions, called on their own -----

\* ----- formatting: TimeController and WorldClockManager -----
MsPerSecond == 1000
MsPerHour == 3600000
Hours == 0..23
Minutes == {0, 59}
Seconds == {0, 7}
\* a time of day on 1 January 1970, UTC, in milliseconds
TimeOfDay(h, m, s) == (((h * 60) + m) * 60 + s) * MsPerSecond
FormatDates ==
    {DateOf(TimeOfDay(h, m, s)) : h \in Hours, m \in Minutes, s \in Seconds}
        \cup {InvalidDate}
\* the zone of the system, in hours ahead of UTC
LocalOffsets == {0, 1}

\* Date getters: NaN for an Invalid Date
GetHours(date, local) ==
    IF date.valid
    THEN Number(((date.time + (local * MsPerHour)) \div MsPerHour) % 24)
    ELSE NaN
GetMinutes(date) ==
    IF date.valid THEN Number((date.time \div MsPerMinute) % 60) ELSE NaN
GetSeconds(date) ==
    IF date.valid THEN Number((date.time \div MsPerSecond) % 60) ELSE NaN

\* arithmetic and comparison of JavaScript numbers
GreaterOrEqual(x, n) == ~x.nan /\ x.value >= n
Greater(x, n) == ~x.nan /\ x.value > n
StrictEquals(x, n) == ~x.nan /\ x.value = n
Remainder(x, n) == IF x.nan THEN NaN ELSE Number(x.value % n)
Minus(x, n) == IF x.nan THEN NaN ELSE Number(x.value - n)

\* Number.prototype.toString and String.prototype.padStart(2, '0')
Digit == <<"0", "1", "2", "3", "4", "5", "6", "7", "8", "9">>
RECURSIVE DecimalString(_)
DecimalString(n) ==
    IF n < 10 THEN Digit[n + 1]
    ELSE DecimalString(n \div 10) \o Digit[(n % 10) + 1]
NumberToString(x) == IF x.nan THEN "NaN" ELSE DecimalString(x.value)
PadStart2(s) == IF Len(s) < 2 THEN "0" \o s ELSE s

\* `${formattedHours}:${formattedMinutes}` and, if showSeconds, the seconds
TimeString(hours, minutes, seconds, showSeconds) ==
    PadStart2(NumberToString(hours)) \o ":" \o PadStart2(NumberToString(minutes))
        \o (IF showSeconds THEN ":" \o PadStart2(NumberToString(seconds)) ELSE "")

\* ampm = hours >= 12 ? 'PM' : 'AM'
Meridiem(hours) == IF GreaterOrEqual(hours, 12) THEN "PM" ELSE "AM"
\* hours = hours % 12; if (hours === 0) hours = 12
TwelveHour(hours) ==
    IF StrictEquals(Remainder(hours, 12), 0) THEN Number(12)
    ELSE Remainder(hours, 12)

\* formatTime(date) with the settings showSeconds and use24HourFormat
FormatTime(date, use24Hour, showSeconds, local) ==
    LET hours24 == GetHours(date, local)
        hours == IF use24Hour THEN hours24 ELSE TwelveHour(hours24)
    IN  [timeString |-> TimeString(hours, GetMinutes(date), GetSeconds(date),
                                   showSeconds),
         ampm |-> IF use24Hour THEN "" ELSE Meridiem(hours24),
         showSeconds |-> showSeconds,
         use24Hour |-> use24Hour]

\* formatTime12Hour(date, showSeconds)
FormatTime12Hour(date, showSeconds, local) ==
    LET hours == TwelveHour(GetHours(date, local))
    IN  [timeString |-> TimeString(hours, GetMinutes(date), GetSeconds(date),
                                   showSeconds),
         ampm |-> Meridiem(GetHours(date, local)),
         hours |-> hours,
         minutes |-> GetMinutes(date),
         seconds |-> GetSeconds(date)]

\* Timezone identifiers: three zones of the IANA database, with their
\* offsets from UTC in minutes on 1 January 1970, and one identifier that
\* names no zone.
ZoneOffset ==
    [tz \in {"Europe/Paris", "America/New_York", "Africa/Cairo"} |->
        CASE tz = "Europe/Paris" -> 60
          [] tz = "America/New_York" -> 0 - 300
          [] tz = "Africa/Cairo" -> 120]
KnownZones == DOMAIN ZoneOffset
Timezones == KnownZones \cup {"Mars/Olympus"}
\* The runtime: the zones its Intl knows (all of them, or none for a build
\* without timezone data), and the hour cycle hour12: false resolves to for
\* en-US, h23 (00..23) or h24 (01..24).
Runtimes ==
    [zones : {KnownZones, {}}, hourCycle : {"h23", "h24"}, local : LocalOffsets]

\* new Intl.DateTimeFormat('en-US', {timeZone, hour12: false, ...})
\* .formatToParts(date), parsed with parseInt: a RangeError for a timezone
\* the runtime does not know and for an Invalid Date.
IntlThrows(date, timezone, rt) ==
    timezone \notin rt.zones \/ date.type # "Date" \/ ~date.valid
WallClock(date, timezone) ==
    DateOf(date.time + (ZoneOffset[timezone] * MsPerMinute))
IntlHour(date, timezone, rt) ==
    LET wall == GetHours(WallClock(date, timezone), 0).value
    IN  IF wall = 0 /\ rt.hourCycle = "h24" THEN 24 ELSE wall

\* the conversion to 12 hours of WorldClockManager
Hours12(hours24) ==
    IF StrictEquals(hours24, 0) THEN Number(12)
    ELSE IF Greater(hours24, 12) THEN Minus(hours24, 12)
    ELSE hours24
Ampm(hours24) ==
    IF StrictEquals(hours24, 0) THEN "AM"
    ELSE IF Greater(hours24, 12) THEN "PM"
    ELSE IF StrictEquals(hours24, 12) THEN "PM"
    ELSE "AM"

TimeData(hours24, minutes, seconds, timezone, isError, isFallback) ==
    [hours |-> hours24, hours12 |-> Hours12(hours24), minutes |-> minutes,
     seconds |-> seconds, ampm |-> Ampm(hours24), timezone |-> timezone,
     isError |-> isError, isFallback |-> isFallback]

\* timezoneOffsets of getFallbackTimeForTimezone, in minutes
TimezoneOffsets ==
    [tz \in {"America/New_York", "America/Los_Angeles", "America/Chicago",
             "America/Denver", "Europe/London", "Europe/Paris",
             "Europe/Berlin", "Europe/Rome", "Europe/Madrid", "Asia/Tokyo",
             "Asia/Shanghai", "Asia/Hong_Kong", "Asia/Singapore",
             "Asia/Dubai", "Asia/Kolkata", "Australia/Sydney",
             "Australia/Melbourne", "Pacific/Auckland", "America/Sao_Paulo",
             "America/Mexico_City"} |->
        CASE tz = "America/New_York" -> 0 - 300
          [] tz = "America/Los_Angeles" -> 0 - 480
          [] tz = "America/Chicago" -> 0 - 360
          [] tz = "America/Denver" -> 0 - 420
          [] tz = "Europe/London" -> 0
          [] tz \in {"Europe/Paris", "Europe/Berlin", "Europe/Rome",
                     "Europe/Madrid"} -> 60
          [] tz = "Asia/Tokyo" -> 540
          [] tz \in {"Asia/Shanghai", "Asia/Hong_Kong", "Asia/Singapore"} -> 480
          [] tz = "Asia/Dubai" -> 240
          [] tz = "Asia/Kolkata" -> 330
          [] tz \in {"Australia/Sydney", "Australia/Melbourne"} -> 660
          [] tz = "Pacific/Auckland" -> 780
          [] tz = "America/Sao_Paulo" -> 0 - 180
          [] tz = "America/Mexico_City" -> 0 - 360]
\* timezoneOffsets[timezone] || 0
FallbackOffset(timezone) ==
    IF timezone \in DOMAIN TimezoneOffsets THEN TimezoneOffsets[timezone] ELSE 0

\* getFallbackTimeForTimezone(date, timezone): the table offset applied to
\* date.getTime() + date.getTimezoneOffset() * 60000; for a date that is no
\* Date object, the local time of new Date() with isError: true.
GetFallbackTimeForTimezone(date, timezone, rt) ==
    IF date.type # "Date"
    THEN TimeData(GetHours(DateOf(now), rt.local), GetMinutes(DateOf(now)),
                  GetSeconds(DateOf(now)), timezone, TRUE, FALSE)
    ELSE IF ~date.valid
    THEN TimeData(NaN, NaN, NaN, timezone, FALSE, TRUE)
    ELSE LET utcTime == date.time + ((0 - (rt.local * 60)) * MsPerMinute)
             timezoneTime ==
                 DateOf(utcTime + (FallbackOffset(timezone) * MsPerMinute))
         IN  TimeData(GetHours(timezoneTime, 0), GetMinutes(timezoneTime),
                      GetSeconds(timezoneTime), timezone, FALSE, TRUE)

\* getTimeForTimezone(date, timezone)
GetTimeForTimezone(date, timezone, rt) ==
    IF IntlThrows(date, timezone, rt)
    THEN GetFallbackTimeForTimezone(date, timezone, rt)
    ELSE TimeData(Number(IntlHour(date, timezone, rt)),
                  GetMinutes(WallClock(date, timezone)),
                  GetSeconds(WallClock(date, timezone)), timezone, FALSE, FALSE)

\* ----- calendar dates and week numbers -----
\* Every Date of getWeekNumber is a midnight UTC, a whole number of days, and
\* every Date of getWeekNumberForTimezone a whole number of seconds: times
\* are kept in days (86400000 ms) and in seconds here.
SecondsPerDay == 86400
\* the proleptic Gregorian calendar of Date; months are 0..11 as in Date
IsLeapYear(y) == (y % 4 = 0 /\ y % 100 # 0) \/ y % 400 = 0
DaysInMonth(y, m) ==
    IF m = 1 THEN (IF IsLeapYear(y) THEN 29 ELSE 28)
    ELSE IF m \in {3, 5, 8, 10} THEN 30 ELSE 31
LeapYearsBefore(y) == ((y - 1) \div 4) - ((y - 1) \div 100) + ((y - 1) \div 400)
DaysBeforeYear(y) == (365 * (y - 1970)) + LeapYearsBefore(y) - LeapYearsBefore(1970)
RECURSIVE DaysBeforeMonth(_, _)
DaysBeforeMonth(y, m) ==
    IF m = 0 THEN 0 ELSE DaysBeforeMonth(y, m - 1) + DaysInMonth(y, m - 1)
\* Date.UTC(year, month, day), and new Date(year, month, day) in a zone
\* without daylight saving: days since the epoch
DateUTC(y, m, d) == DaysBeforeYear(y) + DaysBeforeMonth(y, m) + (d - 1)
\* getUTCDay(): 0 is Sunday; 1 January 1970 was a Thursday
GetUTCDay(t) == (t + 4) % 7
\* getUTCFullYear()
GetUTCFullYear(t) ==
    CHOOSE y \in (FirstYear - 1)..(LastYear + 1) :
        DateUTC(y, 0, 1) <= t /\ t < DateUTC(y + 1, 0, 1)
\* Math.ceil(n / d) for n >= 0
Ceil(n, d) == (n + (d - 1)) \div d

CalendarDates ==
    {[year |-> y, month |-> m, day |-> d] :
        y \in FirstYear..LastYear, m \in 0..11, d \in 1..31}
Calendar == {c \in CalendarDates : c.day <= DaysInMonth(c.year, c.month)}

\* getWeekNumber(date), from the date's getFullYear(), getMonth(), getDate():
\* the Thursday of the date's week, counted in weeks from 1 January of the
\* Thursday's year.
NearestThursdayShiftSunday(dayNum) == 7 - dayNum
NearestThursdayShift(dayNum) == 4 - dayNum
GetWeekNumber(c) ==
    LET d0 == DateUTC(c.year, c.month, c.day)
        dayNum == IF GetUTCDay(d0) = 0 THEN 7 ELSE GetUTCDay(d0)
        d == d0 + NearestThursdayShift(dayNum)
        yearStart == DateUTC(GetUTCFullYear(d), 0, 1)
    IN  Ceil((d - yearStart) + 1, 7)

\* getWeekNumberForTimezone(date, timezone): tzDate is the wall-clock date and
\* time of day in the timezone, to the second;
\* Math.ceil((pastDaysOfYear + startOfYear.getDay() + 1) / 7) with
\* pastDaysOfYear = (tzDate - startOfYear) / 86400000, a fraction of days.
TimesOfDay == {0, TimeOfDay(12, 0, 0) \div MsPerSecond}
GetWeekNumberForTimezone(c, timeOfDay) ==
    LET tzDate == (DateUTC(c.year, c.month, c.day) * SecondsPerDay) + timeOfDay
        startOfYear == DateUTC(c.year, 0, 1)
    IN  Ceil((tzDate - (startOfYear * SecondsPerDay))
                + ((GetUTCDay(startOfYear) + 1) * SecondsPerDay),
             7 * SecondsPerDay)

\* ----- world clocks: WorldClockManager and the worldClocks setting -----
\* A world clock is an object: obj is its identity, id its id field.  A list
\* holds objects, so a write to an object's field shows in every list that
\* holds the object.  Arrays have identity too: the worldClocks setting refers
\* to the array of defaultSettings, to an array of its own, or (after
\* reorderWorldClocks saved this.worldClocks) to the array of the manager.
MaxWorldClocks == 3
ClockZones == {"Europe/Paris", "Asia/Tokyo", "Africa/Cairo"}
ClockZoneInputs == ClockZones \cup {"Mars/Olympus"}
\* the worldClocks of an imported JSON: entries with ids of their own, listed
\* once, twice, or four times
ImportEntries ==
    {[id |-> 1, timezone |-> "Europe/Paris", isEnabled |-> TRUE],
     [id |-> 2, timezone |-> "Europe/Paris", isEnabled |-> FALSE],
     [id |-> 2, timezone |-> "Asia/Tokyo", isEnabled |-> TRUE]}
ImportPairs == {p \in ImportEntries \X ImportEntries : p[1] # p[2]}
ImportLists ==
    {<<e>> : e \in ImportEntries}
        \cup {<<p[1], p[2]>> : p \in ImportPairs}
        \cup {<<p[1], p[2], p[1], p[2]>> : p \in ImportPairs}

WorldClock(obj, id, timezone, isEnabled) ==
    [obj |-> obj, id |-> id, timezone |-> timezone, isEnabled |-> isEnabled]
\* the arrays and the reference of the setting, as one value
Store == [wcm |-> wcmWorldClocks, default |-> defaultWorldClocks,
          own |-> ownWorldClocks, array |-> settingsArray]
\* getSetting('worldClocks', [])
GetWorldClocksSetting(st) ==
    CASE st.array = "shared" -> st.wcm
      [] st.array = "default" -> st.default
      [] st.array = "own" -> st.own
\* a write into the array the setting refers to (push, element assignment)
WriteSettingArray(st, list) ==
    CASE st.array = "shared" -> [st EXCEPT !.wcm = list]
      [] st.array = "default" -> [st EXCEPT !.default = list]
      [] st.array = "own" -> [st EXCEPT !.own = list]
\* saveSetting('worldClocks', a new array)
SaveNewArray(st, list) == [st EXCEPT !.own = list, !.array = "own"]
\* this.worldClocks = a new array; the setting keeps the old one if it
\* referred to it
AssignWorldClocks(st, list) ==
    IF st.array = "shared"
    THEN [st EXCEPT !.own = st.wcm, !.array = "own", !.wcm = list]
    ELSE [st EXCEPT !.wcm = list]
\* object.isEnabled = !object.isEnabled
FlipList(list, obj) ==
    [i \in DOMAIN list |->
        IF list[i].obj = obj THEN [list[i] EXCEPT !.isEnabled = ~@] ELSE list[i]]
ToggleObject(st, obj) ==
    [st EXCEPT !.wcm = FlipList(@, obj), !.default = FlipList(@, obj),
               !.own = FlipList(@, obj)]
\* JSON.stringify: the values, without identity
Json(list) ==
    [i \in DOMAIN list |->
        [id |-> list[i].id, timezone |-> list[i].timezone,
         isEnabled |-> list[i].isEnabled]]
HasTimezone(list, timezone) == \E i \in DOMAIN list : list[i].timezone = timezone
HasId(list, id) == \E i \in DOMAIN list : list[i].id = id
FindById(list, id) == list[CHOOSE i \in DOMAIN list :
                              list[i].id = id /\ \A j \in 1..(i - 1) : list[j].id # id]
WithoutId(list, id) == SelectSeq(list, LAMBDA wc : wc.id # id)
\* isValidTimezone: Intl.DateTimeFormat accepts the identifier
IsValidTimezone(timezone) == timezone \in ClockZones

\* the next state of an operation that leaves the store st and, if it saved,
\* the JSON in localStorage
WorldClocksBecome(st, saved) ==
    /\ wcmWorldClocks' = st.wcm
    /\ defaultWorldClocks' = st.default
    /\ ownWorldClocks' = IF st.array = "own" THEN st.own ELSE <<>>
    /\ settingsArray' = st.array
    /\ storedWorldClocks' = IF saved THEN Json(GetWorldClocksSetting(st))
                            ELSE storedWorldClocks

\* SettingsManager.addWorldClock(worldClockConfig): the store after it and
\* what it returned
SettingsAddWorldClock(st, config) ==
    LET worldClocks == GetWorldClocksSetting(st)
    IN  IF Len(worldClocks) >= MaxWorldClocks
           \/ HasTimezone(worldClocks, config.timezone)
        THEN [store |-> st, ret |-> FALSE]
        ELSE [store |-> WriteSettingArray(st, Append(worldClocks, config)),
              ret |-> TRUE]

\* WorldClockManager.addWorldClock(timezone)
AddWorldClock(timezone) ==
    /\ IF Len(wcmWorldClocks) >= MaxWorldClocks
          \/ HasTimezone(wcmWorldClocks, timezone)
          \/ ~IsValidTimezone(timezone)
       THEN /\ out' = [op |-> "addWorldClock", ret |-> FALSE, id |-> NULL]
            /\ UNCHANGED wcVars
       ELSE /\ nextObject <= MaxObjects
            /\ LET config == WorldClock(nextObject, nextObject, timezone, TRUE)
                   pushed == [Store EXCEPT !.wcm = Append(@, config)]
                   added == SettingsAddWorldClock(pushed, config)
               IN  /\ WorldClocksBecome(
                          IF added.ret THEN added.store
                          ELSE AssignWorldClocks(added.store,
                                                 WithoutId(added.store.wcm, config.id)),
                          added.ret)
                   /\ out' = [op |-> "addWorldClock", ret |-> added.ret,
                              id |-> config.id]
            /\ nextObject' = nextObject + 1
    /\ UNCHANGED <<ntpVars, tcVars, appVars, envVars>>

\* WorldClockManager.removeWorldClock(id)
RemoveWorldClock(id) ==
    /\ LET filtered == AssignWorldClocks(Store, WithoutId(wcmWorldClocks, id))
           worldClocks == GetWorldClocksSetting(filtered)
           success == HasId(worldClocks, id)
       IN  /\ WorldClocksBecome(
                  IF success THEN SaveNewArray(filtered, WithoutId(worldClocks, id))
                  ELSE filtered,
                  success)
           /\ out' = [op |-> "removeWorldClock",
                      ret |-> success /\ HasId(wcmWorldClocks, id),
                      id |-> id]
           /\ UNCHANGED nextObject
    /\ UNCHANGED <<ntpVars, tcVars, appVars, envVars>>

\* WorldClockManager.toggleWorldClock(id) with SettingsManager.toggleWorldClock
ToggleWorldClock(id) ==
    /\ /\ IF ~HasId(wcmWorldClocks, id)
          THEN /\ out' = [op |-> "toggleWorldClock", ret |-> FALSE, id |-> id]
               /\ UNCHANGED <<wcmWorldClocks, defaultWorldClocks, ownWorldClocks,
                              settingsArray, storedWorldClocks>>
          ELSE LET toggled == ToggleObject(Store, FindById(wcmWorldClocks, id).obj)
                   worldClocks == GetWorldClocksSetting(toggled)
                   success == HasId(worldClocks, id)
               IN  /\ WorldClocksBecome(
                          IF success
                          THEN ToggleObject(toggled, FindById(worldClocks, id).obj)
                          ELSE Store,
                          success)
                   /\ out' = [op |-> "toggleWorldClock", ret |-> success,
                              id |-> id]
       /\ UNCHANGED nextObject
    /\ UNCHANGED <<ntpVars, tcVars, appVars, envVars>>

\* WorldClockManager.updateWorldClockCityName(id, newCityName) with
\* SettingsManager.updateWorldClock: the setting's array gets a copy of the
\* object, { ...worldClocks[clockIndex], ...updates }, in the object's place.
ReplaceById(list, id, obj) ==
    LET k == CHOOSE i \in DOMAIN list :
                 list[i].id = id /\ \A j \in 1..(i - 1) : list[j].id # id
    IN  [list EXCEPT ![k] = [@ EXCEPT !.obj = obj]]
UpdateWorldClockCityName(id) ==
    /\ IF ~HasId(wcmWorldClocks, id) \/ ~HasId(GetWorldClocksSetting(Store), id)
       THEN /\ out' = [op |-> "updateWorldClockCityName", ret |-> FALSE,
                       id |-> id]
            /\ UNCHANGED wcVars
       ELSE /\ nextObject <= MaxObjects
            /\ WorldClocksBecome(
                   WriteSettingArray(Store,
                       ReplaceById(GetWorldClocksSetting(Store), id, nextObject)),
                   TRUE)
            /\ nextObject' = nextObject + 1
            /\ out' = [op |-> "updateWorldClockCityName", ret |-> TRUE, id |-> id]
    /\ UNCHANGED <<ntpVars, tcVars, appVars, envVars>>

\* WorldClockManager.clearAllWorldClocks()
ClearAllWorldClocks ==
    /\ /\ WorldClocksBecome(SaveNewArray(AssignWorldClocks(Store, <<>>), <<>>), TRUE)
       /\ out' = [op |-> "clearAllWorldClocks", ret |-> TRUE, id |-> NULL]
       /\ UNCHANGED nextObject
    /\ UNCHANGED <<ntpVars, tcVars, appVars, envVars>>

\* WorldClockManager.reorderWorldClocks(newOrder), newOrder holding the
\* manager's objects in the order perm: this.worldClocks = [...newOrder] is
\* then saved as the setting, the same array.
ReorderWorldClocks(perm) ==
    /\ /\ LET newOrder == [i \in DOMAIN wcmWorldClocks |-> wcmWorldClocks[perm[i]]]
          IN  WorldClocksBecome(
                  [AssignWorldClocks(Store, newOrder) EXCEPT !.array = "shared"],
                  TRUE)
       /\ out' = [op |-> "reorderWorldClocks", ret |-> TRUE, id |-> NULL]
       /\ UNCHANGED nextObject
    /\ UNCHANGED <<ntpVars, tcVars, appVars, envVars>>

\* isValidSetting('worldClocks', val): an array of at most 3 valid
\* configurations
IsValidWorldClocksSetting(list) == Len(list) <= MaxWorldClocks
\* SettingsManager.importSettings(settingsJson): JSON.parse makes new
\* objects; a worldClocks value that is not valid is ignored and the merged
\* settings keep the array of defaultSettings.
ImportSettings(list) ==
    /\ IF IsValidWorldClocksSetting(list)
       THEN /\ nextObject + Len(list) <= MaxObjects + 1
            /\ WorldClocksBecome(
                   SaveNewArray(Store,
                       [i \in DOMAIN list |->
                           WorldClock(nextObject + (i - 1), list[i].id,
                                      list[i].timezone, list[i].isEnabled)]),
                   TRUE)
            /\ nextObject' = nextObject + Len(list)
            /\ out' = [op |-> "importSettings", ret |-> TRUE, id |-> NULL]
       ELSE /\ WorldClocksBecome([Store EXCEPT !.array = "default"], TRUE)
            /\ UNCHANGED nextObject
            /\ out' = [op |-> "importSettings", ret |-> TRUE, id |-> NULL]
    /\ UNCHANGED <<ntpVars, tcVars, appVars, envVars>>

\* WorldClockManager.loadWorldClocksFromSettings(): a new array of the
\* setting's objects whose configuration is valid
LoadWorldClocksFromSettings ==
    /\ /\ WorldClocksBecome(
              AssignWorldClocks(Store,
                  SelectSeq(GetWorldClocksSetting(Store),
                            LAMBDA wc : IsValidTimezone(wc.timezone))),
              FALSE)
       /\ out' = [op |-> "loadWorldClocksFromSettings", ret |-> TRUE, id |-> NULL]
       /\ UNCHANGED nextObject
    /\ UNCHANGED <<ntpVars, tcVars, appVars, envVars>>

AddWorldClockCalled == \E timezone \in ClockZoneInputs : AddWorldClock(timezone)
RemoveWorldClockCalled == \E id \in 1..MaxObjects : RemoveWorldClock(id)
ToggleWorldClockCalled == \E id \in 1..MaxObjects : ToggleWorldClock(id)
UpdateWorldClockCityNameCalled ==
    \E id \in 1..MaxObjects : UpdateWorldClockCityName(id)
ReorderWorldClocksCalled ==
    \E perm \in Permutations(DOMAIN wcmWorldClocks) : ReorderWorldClocks(perm)
ImportSettingsCalled == \E list \in ImportLists : ImportSettings(list)

\* WorldClockManager with the real SettingsManager, driven through their
\* public methods.
NextWorldClocks ==
    \/ AddWorldClockCalled
    \/ RemoveWorldClockCalled
    \/ ToggleWorldClockCalled
    \/ UpdateWorldClockCityNameCalled
    \/ ClearAllWorldClocks
    \/ ReorderWorldClocksCalled
    \/ ImportSettingsCalled
    \/ LoadWorldClocksFromSettings

SpecWorldClocks == Init /\ [][NextWorldClocks]_vars

\* A call is pending; when it returns, the step's record keeps the arguments
\* and the result.
Pending(fn) == out.op = "call" /\ out.fn = fn
Result(ret) == [op |-> out.fn, args |-> out.args, ret |-> ret]

Calls(fn, inputs) == {[op |-> "call", fn |-> fn, args |-> x] : x \in inputs}

FetchNTPTimeCalled ==
    /\ Pending("fetchNTPTime")
    /\ out' = Result(FetchNTPTime(out.args))
    /\ UNCHANGED <<ntpVars, tcVars, appVars, envVars, wcVars>>

CalculateOffsetCalled ==
    /\ Pending("calculateOffset")
    /\ out' = Result(CalculateOffsetCall(out.args[1], out.args[2]))
    /\ UNCHANGED <<ntpVars, tcVars, appVars, envVars, wcVars>>

ParseTimeResponseCalled ==
    /\ Pending("parseTimeResponse")
    /\ out' = Result(ParseTimeResponse(out.args[1], out.args[2]))
    /\ UNCHANGED <<ntpVars, tcVars, appVars, envVars, wcVars>>

FormatTimeCalled ==
    /\ Pending("formatTime")
    /\ out' = Result(FormatTime(out.args[1].date, out.args[1].use24Hour,
                                out.args[1].showSeconds, out.args[1].local))
    /\ UNCHANGED <<ntpVars, tcVars, appVars, envVars, wcVars>>

FormatTime12HourCalled ==
    /\ Pending("formatTime12Hour")
    /\ out' = Result(FormatTime12Hour(out.args[1].date, out.args[1].showSeconds,
                                      out.args[1].local))
    /\ UNCHANGED <<ntpVars, tcVars, appVars, envVars, wcVars>>

GetTimeForTimezoneCalled ==
    /\ Pending("getTimeForTimezone")
    /\ out' = Result(GetTimeForTimezone(out.args[1].date, out.args[1].timezone,
                                        out.args[1].runtime))
    /\ UNCHANGED <<ntpVars, tcVars, appVars, envVars, wcVars>>

\* the arguments of the formatters, with the settings and the runtime they read
FormatTimeArgs ==
    {<<a>> : a \in [date : FormatDates, use24Hour : BOOLEAN,
                    showSeconds : BOOLEAN, local : LocalOffsets]}
FormatTime12HourArgs ==
    {<<a>> : a \in [date : FormatDates, showSeconds : BOOLEAN,
                    local : LocalOffsets]}
GetTimeForTimezoneArgs ==
    {<<a>> : a \in [date : FormatDates \cup {NotADate("null")},
                    timezone : Timezones, runtime : Runtimes]}

\* formatDate(date): "Tuesday, 14 October, 2025, week 42".  For an Invalid
\* Date every getter is NaN, dayNames[NaN] and monthNames[NaN] are undefined
\* and the week number is NaN.
DayNames ==
    <<"Sunday", "Monday", "Tuesday", "Wednesday", "Thursday", "Friday",
      "Saturday">>
MonthNames ==
    <<"January", "February", "March", "April", "May", "June", "July",
      "August", "September", "October", "November", "December">>
DateString(dayName, day, monthName, year, weekNumber) ==
    dayName \o ", " \o NumberToString(day) \o " " \o monthName \o ", "
        \o NumberToString(year) \o ", week " \o NumberToString(weekNumber)
DateData(dayName, day, monthName, year, weekNumber) ==
    [dateString |-> DateString(dayName, day, monthName, year, weekNumber),
     dayName |-> dayName, day |-> day, monthName |-> monthName,
     year |-> year, weekNumber |-> weekNumber]
FormatDate(date) ==
    IF date = InvalidDate
    THEN DateData("undefined", NaN, "undefined", NaN, NaN)
    ELSE DateData(DayNames[GetUTCDay(DateUTC(date.year, date.month, date.day)) + 1],
                  Number(date.day), MonthNames[date.month + 1],
                  Number(date.year), Number(GetWeekNumber(date)))
FormatDateArgs ==
    {<<[date |-> c]>> : c \in {d \in Calendar : d.year = LastYear} \cup {InvalidDate}}

FormatDateCalled ==
    /\ Pending("formatDate")
    /\ out' = Result(FormatDate(out.args[1].date))
    /\ UNCHANGED <<ntpVars, tcVars, appVars, envVars, wcVars>>

GetWeekNumberCalled ==
    /\ Pending("getWeekNumber")
    /\ out' = Result(GetWeekNumber(out.args[1]))
    /\ UNCHANGED <<ntpVars, tcVars, appVars, envVars, wcVars>>

GetWeekNumberForTimezoneCalled ==
    /\ Pending("getWeekNumberForTimezone")
    /\ out' = Result(GetWeekNumberForTimezone(out.args[1], out.args[2]))
    /\ UNCHANGED <<ntpVars, tcVars, appVars, envVars, wcVars>>

PureCalls ==
    Calls("fetchNTPTime", [Endpoints -> Outcomes])
        \cup Calls("calculateOffset", Values \X Values)
        \cup Calls("parseTimeResponse", Bodies \X ApiTypes)
        \cup Calls("formatTime", FormatTimeArgs)
        \cup Calls("formatTime12Hour", FormatTime12HourArgs)
        \cup Calls("getTimeForTimezone", GetTimeForTimezoneArgs)
        \cup Calls("getWeekNumber", {<<c>> : c \in Calendar})
        \cup Calls("getWeekNumberForTimezone", Calendar \X TimesOfDay)
        \cup Calls("formatDate", FormatDateArgs)

InitPure ==
    /\ Constructed
    /\ out \in PureCalls

NextPure ==
    \/ FetchNTPTimeCalled
    \/ CalculateOffsetCalled
    \/ ParseTimeResponseCalled
    \/ FormatTimeCalled
    \/ FormatTime12HourCalled
    \/ GetTimeForTimezoneCalled
    \/ GetWeekNumberCalled
    \/ GetWeekNumberForTimezoneCalled
    \/ FormatDateCalled

SpecPure == InitPure /\ [][NextPure]_vars

TypeOK ==
    /\ timeOffset \in Int
    /\ lastSyncTime \in {NULL} \cup (0..MaxTime)
    /\ isOnlineMode \in BOOLEAN
    /\ isNTPSynced \in BOOLEAN
    /\ nextId \in 1..(MaxAttempts + 1)
    /\ tcNextId \in 1..(MaxSyncs + 1)

\* ----- properties -----

FailedSyncDone == out.op = "performSyncDone" /\ ~out.done.fetched

\* C1: once a sync has succeeded, a performSync whose fetch fails leaves
\* timeOffset as it was and returns false, and getCurrentTime() is still the
\* local clock plus that offset.
C1_FailedSyncKeepsOffset ==
    [][(lastSyncTime # NULL /\ FailedSyncDone')
          => /\ timeOffset' = timeOffset
             /\ out'.ret = "false"
             /\ GetCurrentTime' = now' + timeOffset]_vars

C1_Witness ==
    /\ FailedSyncDone
    /\ lastSyncTime # NULL
    /\ timeOffset # 0
    /\ GetCurrentTime = now + timeOffset

TCSyncLost ==
    \/ out.op = "offline"
    \/ out.op = "syncWithNTPDone" /\ out.ret = "false"

\* C2 as stated: after a successful syncWithNTP, a failed sync or an
\* 'offline' event leaves TimeController's offset at O and the displayed time
\* at localNow + O.
C2_OffsetRetained ==
    [][(isNTPSynced /\ TCSyncLost')
          => /\ tcTimeOffset' = tcTimeOffset
             /\ TCGetCurrentTime' = now' + tcTimeOffset]_vars

\* C2 amended: a failed syncWithNTP, and an 'offline' event handled by
\* App.handleConnectionLost, reset TimeController's offset to 0 and clear
\* isNTPSynced, so the display tick falls back to the raw local clock.
C2_OffsetResetOnLoss ==
    [][TCSyncLost'
          => /\ tcTimeOffset' = 0
             /\ ~isNTPSynced'
             /\ TCGetCurrentTime' = now']_vars

C2_Witness ==
    /\ TCSyncLost
    /\ tcLastSyncTime # NULL
    /\ tcTimeOffset = 0
    /\ ~isNTPSynced

\* C3: while no sync has ever succeeded (lastSyncTime is null), timeOffset is
\* 0 and getCurrentTime() is the raw local clock.
C3_NeverSyncedIsLocal ==
    lastSyncTime = NULL => (timeOffset = 0 /\ GetCurrentTime = now)

C3_Witness ==
    /\ lastSyncTime = NULL
    /\ FailedSyncDone
    /\ ~isOnlineMode
    /\ ntpWriter.offset # 0

AttemptIds(S) == {a.id : a \in S}

\* C4: performSync called while the browser is offline returns false, issues
\* no fetch and leaves timeOffset, lastSyncTime, isOnlineMode and the
\* periodic timer unchanged.
C4_OfflineSyncIsNoop ==
    [][(~navigatorOnLine /\ out'.op \in {"forcSync", "syncTimer"})
          => /\ out'.ret = "false"
             /\ nextId' = nextId
             /\ UNCHANGED <<inflight, timeOffset, lastSyncTime, isOnlineMode,
                            syncTimer, ntpTimers>>]_vars

C4_Witness ==
    /\ out.op \in {"forcSync", "syncTimer"}
    /\ out.ret = "false"
    /\ ~navigatorOnLine
    /\ lastSyncTime # NULL

\* C5: an 'offline' event sets isOnlineMode false and cancels the periodic
\* timer, leaving timeOffset and lastSyncTime unchanged.
C5_OfflineStopsSchedule ==
    [][(navigatorOnLine /\ out'.op = "offline")
          => /\ ~isOnlineMode'
             /\ syncTimer' = NULL
             /\ ntpTimers' = {}
             /\ UNCHANGED <<timeOffset, lastSyncTime>>]_vars

C5_Witness ==
    /\ out.op = "offline"
    /\ out.suspended
    /\ ~isOnlineMode
    /\ syncTimer = NULL
    /\ lastSyncTime # NULL
    /\ timeOffset # 0

\* C6: once an 'offline' event has been handled, a periodic timer that fires
\* before any 'online' event issues no fetch.  (NTPService's own timer is
\* cancelled by its 'offline' listener, C5, and its performSync is a no-op
\* offline, C4; this is TimeController's periodic sync.)
C6_NoPeriodicFetchOffline ==
    [][(out.op = "offline" /\ out'.op = "periodicSync")
          => /\ tcNextId' = tcNextId
             /\ AttemptIds(tcInflight') = AttemptIds(tcInflight)]_vars

\* C7: an 'online' event that follows the 'offline' event starts exactly one
\* performSync, and leaves a schedule running exactly if the offline event
\* suspended one, with the period in force before.
C7_OnlineResumesOnlySuspended ==
    [][(out.op = "offline" /\ out'.op = "online")
          => /\ Cardinality(AttemptIds(inflight') \ AttemptIds(inflight)) = 1
             /\ (syncTimer' # NULL) = out.suspended
             /\ syncInterval' = syncInterval]_vars

\* C8 as stated: isOnlineMode turns from false to true only when a fetch has
\* completed successfully.
C8_OnlineOnlyAfterFetch ==
    [][(~isOnlineMode /\ isOnlineMode')
          => (out'.op = "performSyncDone" /\ out'.done.fetched)]_vars

\* C8 amended: isOnlineMode turns from false to true only when a fetch has
\* completed successfully or when an 'online' event fires.
C8_OnlineAfterFetchOrEvent ==
    [][(~isOnlineMode /\ isOnlineMode')
          => \/ out'.op = "performSyncDone" /\ out'.done.fetched
             \/ out'.op = "online"]_vars

C8_Witness ==
    /\ out.op = "online"
    /\ isOnlineMode
    /\ lastSyncTime = NULL
    /\ inflight # {}
    /\ ntpWriter.mode = 0
    /\ ntpWriter.offset # 0

OtherAttempt(x, y) == x # 0 /\ y # 0 /\ x # y

\* C9 as stated: a tick never sees the offset written by one sync attempt
\* with the sync state (flag, lastSyncTime) written by another attempt.
C9_SameAttemptEverywhere ==
    out.op = "tick"
        => /\ ~OtherAttempt(tcWriter.offset, tcWriter.synced)
           /\ ~OtherAttempt(tcWriter.offset, tcWriter.lastSync)

\* C9 amended: every attempt applies its writes in one step.  The offset and
\* the synced flag a tick reads always come from the same attempt or event;
\* while the flag is set, lastSyncTime comes from that attempt too, and while
\* it is clear the offset is 0.  A failed attempt leaves the lastSyncTime of
\* the last success in place.
C9_NoTornUpdate ==
    /\ tcWriter.offset = tcWriter.synced
    /\ isNTPSynced => /\ tcWriter.lastSync = tcWriter.offset
                      /\ tcWriter.offset # 0
                      /\ tcLastSyncTime # NULL
    /\ ~isNTPSynced => tcTimeOffset = 0
    /\ out.op = "tick" => out.shown = Observe(isNTPSynced, tcTimeOffset,
                                              tcLastSyncTime)

C9_Witness ==
    /\ out.op = "tick"
    /\ isNTPSynced
    /\ tcWriter.offset >= 2
    /\ tcInflight # {}
    /\ out.shown.time = now + tcTimeOffset
    /\ tcTimeOffset # 0

\* C10: a fetch that completes successfully is applied whatever happened to
\* the schedule meanwhile and whichever attempts completed before it: the
\* offset stored is the one of the attempt that completed last.
C10_InFlightResultApplied ==
    (out.op = "performSyncDone" /\ out.done.fetched)
        => /\ out.ret = "true"
           /\ timeOffset = out.done.offset
           /\ lastSyncTime = now
           /\ isOnlineMode
           /\ ntpWriter.offset = out.done.id

C10_Witness ==
    /\ out.op = "performSyncDone"
    /\ out.done.fetched
    /\ out.done.stopped
    /\ out.done.late
    /\ syncTimer = NULL
    /\ timeOffset = out.done.offset
    /\ timeOffset # 0

\* C11: NTPService never has more than one live periodic timer, the live one
\* is the one syncTimer holds, and stopPeriodicSync on a stopped engine
\* changes nothing.
C11_AtMostOneTimer ==
    /\ [](/\ Cardinality(ntpTimers) <= 1
          /\ \A t \in ntpTimers : t.id = syncTimer
          /\ (syncTimer = NULL) = (ntpTimers = {}))
    /\ [][(syncTimer = NULL /\ out'.op = "stopPeriodicSync")
             => /\ UNCHANGED <<timeOffset, lastSyncTime, syncInterval, syncTimer,
                               ntpTimers, isOnlineMode, nextId>>
                /\ AttemptIds(inflight') = AttemptIds(inflight)]_vars

C11_Witness ==
    /\ out.op = "setSyncInterval"
    /\ out.ret = "pending"
    /\ Cardinality(ntpTimers) = 1
    /\ \A t \in ntpTimers : t.id = syncTimer /\ t.period = syncInterval
    /\ syncInterval # DefaultIntervalMinutes * MsPerMinute

\* the endpoints of the list up to and including endpoint i
UpTo(i) == [k \in 1..i |-> k]

\* C12: fetchNTPTime contacts the endpoints in list order and stops at the
\* first one that answers, whose instant it returns; it fails only if every
\* endpoint failed, with the error of the last endpoint.
C12_FirstAnswerWins ==
    out.op = "fetchNTPTime"
        => LET resp == out.args
               r == out.ret
           IN  /\ r.ok = (\E i \in Endpoints : resp[i].ok)
               /\ r.ok => \E i \in Endpoints :
                              /\ resp[i].ok
                              /\ \A j \in 1..(i - 1) : ~resp[j].ok
                              /\ r.time = resp[i].time
                              /\ r.contacted = UpTo(i)
               /\ ~r.ok => /\ r.contacted = UpTo(Cardinality(Endpoints))
                           /\ r.err = resp[Cardinality(Endpoints)].err

C12_Witness ==
    /\ out.op = "fetchNTPTime"
    /\ out.ret.ok
    /\ out.ret.contacted = UpTo(2)
    /\ out.args[3].ok
    /\ out.args[3].time # out.ret.time
    /\ out.args[1].err # out.args[2].err

\* C13: a successful sync never stores an offset derived from an instant
\* that validateTimeResponse rejects (more than 24 hours from the local
\* clock).
C13_SuspiciousTimeDiscarded ==
    [][\A a \in inflight, r \in FetchResults :
          (r.ok /\ PerformSyncDone(a, r))
              => ValidateTimeResponse(RemoteTime(r), now)]_vars

\* C14: every successful sync stores remote - (T0 + (T1 - T0) / 2), T0 and T1
\* being the local clock just before and just after the fetch, the local
\* reference point being a Date (whole milliseconds).
C14_DelayCompensated ==
    [][\A a \in tcInflight, r \in FetchResults :
          (r.ok /\ SyncWithNTPDone(a, r))
              => tcTimeOffset' =
                     RemoteTime(r) - AdjustedLocalTime(a.t0, now)]_vars

\* C15: calculateOffset throws whenever an argument is not a valid instant
\* (not a Date, null, or a Date whose time value is NaN); it never returns a
\* number then.
C15_InvalidArgumentThrows ==
    (/\ out.op = "calculateOffset"
     /\ ~(IsValidInstant(out.args[1]) /\ IsValidInstant(out.args[2])))
        => out.ret = Threw

\* C16: for valid instants calculateOffset(remote, local) is remote - local
\* in milliseconds, and the negative of calculateOffset(local, remote).
C16_OffsetAntisymmetric ==
    (/\ out.op = "calculateOffset"
     /\ IsValidInstant(out.args[1])
     /\ IsValidInstant(out.args[2]))
        => /\ out.ret = Number(out.args[1].time - out.args[2].time)
           /\ CalculateOffsetCall(out.args[2], out.args[1])
                  = Number(0 - out.ret.value)

C16_Witness ==
    /\ out.op = "calculateOffset"
    /\ IsValidInstant(out.args[1])
    /\ IsValidInstant(out.args[2])
    /\ out.ret.value < 0
    /\ ~out.ret.threw
    /\ ~out.ret.nan

\* C17: for every body and every supported provider type parseTimeResponse
\* returns a valid instant or throws; it never returns the Invalid Date.
C17_ParsedOrThrown ==
    (out.op = "parseTimeResponse" /\ out.args[2] \in ProviderTypes)
        => (out.ret.threw \/ IsValidInstant(out.ret.date))

TCFailureCaught ==
    [][(out'.op = "syncWithNTPDone" /\ out'.ret = "false")
          => /\ ~isNTPSynced'
             /\ TCGetCurrentTime' = now'
             /\ (updateInterval # NULL \/ tcPhase' = "ready")
                    => updateInterval' # NULL
             /\ UNCHANGED <<tcSyncInterval, syncIntervalMinutes>>]_vars

\* C19: when initialize completes, whether its startup sync succeeded or
\* failed, the periodic sync timer of TimeController is set.
C19_ScheduleAfterInitialize ==
    [][(tcPhase = "initializing" /\ tcPhase' = "ready")
          => tcSyncInterval' # NULL]_vars

\* C20: in a display tick the world clocks are formatted from the instant the
\* local clock is formatted from, the local time plus the stored offset.
C20_WorldClocksFromAccurateTime ==
    out.op = "tick" => out.world = out.shown.time

\* C21: the period of TimeController's periodic sync timer, whenever the
\* timer is set, is at least one minute.
C21_PeriodAtLeastOneMinute ==
    tcSyncInterval # NULL => tcSyncInterval >= MsPerMinute

\* C22: for every hour H of the day, formatTime and formatTime12Hour (for
\* the local zone) and getTimeForTimezone (for a zone the runtime knows) give
\* the 12-hour hour H mod 12 with 0 shown as 12 and the meridiem AM exactly
\* when H < 12, and the pair maps back to H.
Shown12(h) == IF h % 12 = 0 THEN 12 ELSE h % 12
To24Hour(h12, ampm) ==
    IF ampm = "AM" THEN (IF h12 = 12 THEN 0 ELSE h12)
    ELSE (IF h12 = 12 THEN 12 ELSE h12 + 12)
RoundTrips(H, h12, ampm) ==
    /\ h12 = Shown12(H)
    /\ (ampm = "AM") = (H < 12)
    /\ ampm \in {"AM", "PM"}
    /\ To24Hour(h12, ampm) = H
LocalHour(a) == GetHours(a.date, a.local).value
ZoneHour(a) == GetHours(WallClock(a.date, a.timezone), 0).value

C22_LocalTwelveHour ==
    /\ (out.op = "formatTime12Hour" /\ out.args[1].date.valid)
          => /\ ~out.ret.hours.nan
             /\ RoundTrips(LocalHour(out.args[1]), out.ret.hours.value,
                           out.ret.ampm)
    /\ (out.op = "formatTime" /\ out.args[1].date.valid
           /\ ~out.args[1].use24Hour)
          => \E h12 \in 1..12 :
                /\ RoundTrips(LocalHour(out.args[1]), h12, out.ret.ampm)
                /\ out.ret.timeString =
                       TimeString(Number(h12), GetMinutes(out.args[1].date),
                                  GetSeconds(out.args[1].date),
                                  out.args[1].showSeconds)

C22_Witness ==
    /\ out.op = "formatTime"
    /\ out.args[1].date.valid
    /\ ~out.args[1].use24Hour
    /\ LocalHour(out.args[1]) = 0
    /\ out.ret.ampm = "AM"
    /\ out.ret.timeString = "12:59:07"

C22_TwelveHourRoundTrip ==
    /\ C22_LocalTwelveHour
    /\ (out.op = "getTimeForTimezone"
           /\ ~IntlThrows(out.args[1].date, out.args[1].timezone,
                          out.args[1].runtime))
          => /\ ~out.ret.hours12.nan
             /\ RoundTrips(ZoneHour(out.args[1]), out.ret.hours12.value,
                           out.ret.ampm)

\* ISO 8601, stated on its own: weeks run Monday..Sunday, week 1 of a year
\* is the week holding that year's first Thursday (the week holding 4
\* January), and a date's week is counted from week 1 of the week-year the
\* date's week belongs to.
DayNumber(c) == DateUTC(c.year, c.month, c.day)
IsoWeekday(n) == ((n + 3) % 7) + 1
MondayOf(n) == n - (IsoWeekday(n) - 1)
WeekOneMonday(y) == MondayOf(DateUTC(y, 0, 4))
IsoWeekYear(n) ==
    CHOOSE y \in (FirstYear - 1)..(LastYear + 1) :
        WeekOneMonday(y) <= n /\ n < WeekOneMonday(y + 1)
IsoWeek(c) ==
    ((MondayOf(DayNumber(c)) - WeekOneMonday(IsoWeekYear(DayNumber(c)))) \div 7) + 1
FirstThursday(y) ==
    CHOOSE n \in DateUTC(y, 0, 1)..DateUTC(y, 0, 7) :
        IsoWeekday(n) = 4

\* C23: for every calendar date, getWeekNumber returns the ISO 8601 week
\* number: in 1..53, and the number of the date's Monday..Sunday week counted
\* from the week holding the first Thursday of the week-year.
C23_IsoWeekNumber ==
    out.op = "getWeekNumber"
        => /\ out.ret \in 1..53
           /\ out.ret = IsoWeek(out.args[1])
           /\ \A y \in FirstYear..LastYear :
                 (MondayOf(DayNumber(out.args[1])) = MondayOf(FirstThursday(y)))
                    => out.ret = 1

C23_Witness ==
    /\ out.op = "getWeekNumber"
    /\ out.args[1] = [year |-> 2025, month |-> 11, day |-> 29]
    /\ out.ret = 1

\* C24: the week number of a world clock's date is the ISO 8601 week number
\* of the wall-clock date in the timezone, what getWeekNumber returns for
\* that calendar date.
C24_WorldClockWeekIsIso ==
    out.op = "getWeekNumberForTimezone"
        => out.ret = GetWeekNumber(out.args[1])

\* C25: formatTime and formatDate of an Invalid Date return (they do not
\* throw) a result that is marked as an error.
MarkedAsError(ret) == "isError" \in DOMAIN ret /\ ret.isError
C25_InvalidInstantMarked ==
    (out.op \in {"formatTime", "formatDate"} /\ out.args[1].date = InvalidDate)
        => MarkedAsError(out.ret)

\* C26: for a valid date and a timezone identifier the runtime does not
\* support, getTimeForTimezone returns a result with isError set, never a time
\* presented as that zone's.
C26_UnsupportedZoneSignalled ==
    (out.op = "getTimeForTimezone"
       /\ out.args[1].date.valid
       /\ out.args[1].timezone \notin out.args[1].runtime.zones)
        => out.ret.isError

\* C27: the list of WorldClockManager, the worldClocks setting and its copy
\* in localStorage each hold at most 3 world clocks, no two of them with the
\* same timezone.
AtMostThreeDistinct(list) ==
    /\ Len(list) <= MaxWorldClocks
    /\ \A i, j \in DOMAIN list : list[i].timezone = list[j].timezone => i = j
C27_AtMostThreeNoDuplicates ==
    /\ AtMostThreeDistinct(wcmWorldClocks)
    /\ AtMostThreeDistinct(GetWorldClocksSetting(Store))
    /\ AtMostThreeDistinct(storedWorldClocks)

\* C30: when toggleWorldClock(id) returns true, the clock's isEnabled in the
\* manager's list and in the stored worldClocks setting is the negation of
\* its value in the manager's list before the call.
EnabledIn(list, id) == FindById(list, id).isEnabled
C30_ToggleNegates ==
    [][(out'.op = "toggleWorldClock" /\ out'.ret = TRUE)
          => /\ EnabledIn(wcmWorldClocks', out'.id)
                    = ~EnabledIn(wcmWorldClocks, out'.id)
             /\ EnabledIn(storedWorldClocks', out'.id)
                    = ~EnabledIn(wcmWorldClocks, out'.id)]_vars

\* toggleWorldClock does negate when the setting holds a copy of the
\* manager's object rather than the object itself.
ToggleOfCopyNegates ==
    /\ out.op = "toggleWorldClock"
    /\ out.ret = TRUE
    /\ \E i \in DOMAIN wcmWorldClocks, j \in DOMAIN storedWorldClocks :
          /\ wcmWorldClocks[i].id = out.id
          /\ storedWorldClocks[j].id = out.id
          /\ ~wcmWorldClocks[i].isEnabled
          /\ ~storedWorldClocks[j].isEnabled

\* C28: when destroy of NTPService returns, syncTimer is null, and an
\* 'online' event that follows it starts no timer and no sync attempt.
C28_DestroyReleases ==
    [][/\ out'.op = "destroy" => syncTimer' = NULL
       /\ (out.op = "destroy" /\ out'.op = "online")
             => (syncTimer' = NULL /\ inflight' \subseteq inflight)]_vars

\* The part of C28 that destroy does keep: no timer is left when it returns.
DestroyClearsTimer ==
    out.op = "destroy" => (syncTimer = NULL /\ ntpTimers = {})

\* C29: while App is retrying after a failed restore, the period of the
\* reconnect interval, the wait before the next retry, is
\* min(5 s * 2^k, 5 min) after k failed reconnection attempts.
C29_BackoffGrows ==
    reconnectInterval # NULL
        => reconnectInterval = ReconnectDelay(reconnectAttempts)

\* The wait the code does use: the delay computed when the interval was
\* created, with no failed attempt counted yet.
ReconnectDelayIsConstant ==
    reconnectInterval # NULL => reconnectInterval = BaseDelay

====
